---- MODULE Spec2Model ----
(***************************************************************************)
(* Model of the HMM model selectors (my_model_selectors.py) and of the     *)
(* recognizer (my_recognizer.py).                                          *)
(*                                                                         *)
(* The sequence model (hmmlearn's GaussianHMM) is an external              *)
(* collaborator: every fit and every score call either succeeds or raises. *)
(* Fits on the word's full data are decided by the oracle fitOK (the fit   *)
(* is a function of the state count: same data, same random_state); the    *)
(* outcome of every score call and of every fold fit is an input drawn     *)
(* when the call is made.  Scores are small integers.                      *)
(*                                                                         *)
(* A Python call is modelled by an operator that returns a record          *)
(* [raised, val]: raised = TRUE is an exception leaving the call.          *)
(***************************************************************************)
EXTENDS Integers, Sequences, FiniteSets, TLC

\* ---------------------------------------------------------------- bounds
\* max_n_components ranges over min_n_components..MaxStates
MaxStates == 4
\* a word has n_splits..MaxSeq training sequences
MaxSeq == 4
\* the vocabulary holds 0..MaxOther words besides this_word
MaxOther == 2
\* a successful score call returns a value in 0..MaxScore
MaxScore == 1
\* the test set holds 0..MaxTest sequences
MaxTest == 2

\* ------------------------------------------------------ program constants
\* default of min_n_components
DefaultMin == 2
\* default of n_constant
DefaultNConstant == 3
\* n_splits of cross_validation_model
n_splits == 3
\* float("-inf"): below every score the model can produce
NegInf == -1000000

Words == {"JOHN", "BOOK"}
NoGuess == "None"
\* len(self.X), the number of frames of the word's training data
Frames == {1, 3}
\* len(self.X[0]), the number of features
Features == {1, 2}

StateCounts == DefaultMin..(MaxStates - 1)

\* strategy .. nfeat: the selector and its data; fitOK[s]: whether the fit of
\* s states on the word's full data succeeds; pc, n, best_*: the position and
\* the locals of select(); result: what select() returned; escaped: an
\* exception left select(); hist[s]: what the evaluation of candidate s did
\* (st), whether a fit of it succeeded (fit) and its criterion score (score);
\* folded: a k-fold split was made; models, tests: the arguments of
\* recognize (tests[i][j] is what models[j].score does on test sequence i);
\* idx, probabilities, guesses: its locals.
VARIABLES
    strategy, verbose, n_constant, min_n_components, max_n_components,
    nseq, nother, nframes, nfeat, fitOK,
    pc, n, best_score, best_model, best_num_states, result, escaped,
    hist, folded,
    models, tests, idx, probabilities, guesses

cfgvars == <<strategy, verbose, n_constant, min_n_components, max_n_components,
             nseq, nother, nframes, nfeat, fitOK>>
selvars == <<n, best_score, best_model, best_num_states, hist, folded>>
recvars == <<models, tests, idx, probabilities, guesses>>
vars == <<cfgvars, pc, selvars, result, escaped, recvars>>

\* ----------------------------------------------------------------- values
\* Python's None, as a value of the same shape as a model
None == [kind |-> "None", n_components |-> 0, fit_on |-> 0]
\* a fitted GaussianHMM: its state count and what it was fit on
\* (0: the word's full data self.X; k > 0: the training split of fold k)
Model(num_states, fold) == [kind |-> "hmm", n_components |-> num_states, fit_on |-> fold]

Ret(v) == [raised |-> FALSE, val |-> v]
Raise == [raised |-> TRUE, val |-> None]

\* what one call of model.score can do
ScoreOutcome == {[st |-> "fail", v |-> 0]} \cup {[st |-> "ok", v |-> s] : s \in 0..MaxScore}
NotCalled == [st |-> "none", v |-> 0]
\* what one fold can do: the fit fails, or it succeeds and the score is an outcome
FoldOutcome == {[fit |-> FALSE, sc |-> NotCalled]} \cup {[fit |-> TRUE, sc |-> o] : o \in ScoreOutcome}

NoHist == [st |-> "none", fit |-> FALSE, score |-> 0]

\* hmm_model.score(X, lengths): AttributeError on None, or the call's outcome
hmm_score(hmm_model, out) ==
    IF hmm_model = None \/ out.st # "ok" THEN Raise ELSE Ret(out.v)

\* ----------------------------------------------------------- ModelSelector
\* base_model without its try: a failed fit leaves the call
base_model_raising(num_states, fit) ==
    IF fit THEN Ret(Model(num_states, 0)) ELSE Raise

base_model(num_states, fit) ==
    IF fit THEN Ret(Model(num_states, 0)) ELSE Ret(None)

\* the handler of the per-n try of SelectorBIC.select and SelectorDIC.select:
\* with verbose set, the print reads num_states, a name select() never binds
loop_except(verb) ==
    IF verb THEN Raise ELSE Ret(None)

\* the handler of the outer try of select(): return None
select_except == Ret(None)

\* ---------------------------------------------------------- SelectorConstant
ConstantSelect ==
    /\ pc = "start" /\ strategy = "Constant"
    /\ LET r == base_model(n_constant, fitOK[n_constant]) IN
        /\ result' = r.val
        /\ escaped' = r.raised
    /\ pc' = "done"
    /\ UNCHANGED <<cfgvars, selvars, recvars>>

\* --------------------------------------------------------------- SelectorBIC
\* floor(1000 * ln N)
LogMilli(N) ==
    CASE N = 1 -> 0 [] N = 2 -> 693 [] N = 3 -> 1098 [] N = 4 -> 1386

\* the score is kept in thousandths: 1000 * (-2 * logL + p * logN)
bic_model(num_states, fit, out) ==
    LET hmm_model == base_model(num_states, fit).val
        p == num_states * num_states + 2 * num_states * nfeat - 1
        logL == hmm_score(hmm_model, out)
    IN  IF logL.raised THEN Raise
        ELSE Ret([score |-> (-2000) * logL.val + p * LogMilli(nframes), model |-> hmm_model])

\* lines 103-105
BICStart ==
    /\ pc = "start" /\ strategy = "BIC"
    /\ LET r == base_model(n_constant, fitOK[n_constant]) IN
        IF r.raised
        THEN /\ result' = select_except.val
             /\ escaped' = select_except.raised
             /\ pc' = "done"
             /\ UNCHANGED selvars
        ELSE /\ best_num_states' = 1
             /\ best_score' = NegInf
             /\ best_model' = r.val
             /\ n' = min_n_components
             /\ pc' = "loop"
             /\ UNCHANGED <<result, escaped, hist, folded>>
    /\ UNCHANGED <<cfgvars, recvars>>

\* one pass of the loop over range(min_n_components, max_n_components)
BICIter ==
    /\ pc = "loop" /\ strategy = "BIC" /\ n < max_n_components
    /\ \E out \in ScoreOutcome :
        LET r == bic_model(n, fitOK[n], out) IN
        IF ~r.raised
        THEN /\ hist' = [hist EXCEPT ![n] = [st |-> "ok", fit |-> TRUE, score |-> r.val.score]]
             /\ IF r.val.score > best_score
                THEN /\ best_score' = r.val.score
                     /\ best_num_states' = n
                     /\ best_model' = r.val.model
                ELSE UNCHANGED <<best_score, best_num_states, best_model>>
             /\ n' = n + 1
             /\ UNCHANGED <<pc, result, escaped>>
        ELSE /\ hist' = [hist EXCEPT ![n] = [st |-> "fail", fit |-> fitOK[n], score |-> 0]]
             /\ UNCHANGED <<best_score, best_num_states, best_model>>
             /\ IF loop_except(verbose).raised
                THEN /\ result' = select_except.val
                     /\ escaped' = select_except.raised
                     /\ pc' = "done"
                     /\ n' = n
                ELSE /\ n' = n + 1
                     /\ UNCHANGED <<pc, result, escaped>>
    /\ UNCHANGED <<cfgvars, folded, recvars>>

\* line 121
BICReturn ==
    /\ pc = "loop" /\ strategy = "BIC" /\ n >= max_n_components
    /\ result' = best_model
    /\ pc' = "done"
    /\ UNCHANGED <<cfgvars, selvars, escaped, recvars>>

\* --------------------------------------------------------------- SelectorDIC
RECURSIVE anti_loop(_, _, _, _)
\* the loop of anti_dic_score over the other words, from the k-th on
anti_loop(hmm_model, others, k, total_score) ==
    IF k > Len(others) THEN Ret(total_score)
    ELSE LET score == hmm_score(hmm_model, others[k]) IN
         IF score.raised THEN Raise
         ELSE anti_loop(hmm_model, others, k + 1, total_score + score.val)

\* total_score / word_count, kept as the exact fraction num/den;
\* ZeroDivisionError when there is no other word
anti_dic_score(hmm_model, others) ==
    LET t == anti_loop(hmm_model, others, 1, 0)
        word_count == Len(others)
    IN  IF t.raised THEN Raise
        ELSE IF word_count = 0 THEN Raise
        ELSE Ret([num |-> t.val, den |-> word_count])

\* the score is kept multiplied by the number of other words, which is the
\* same for every n of one select(): den * (p_evidence - num/den)
dic_model(num_states, fit, ev, others) ==
    LET hmm_model == base_model(num_states, fit).val
        p_evidence == hmm_score(hmm_model, ev)
        p_anti_evidence == anti_dic_score(hmm_model, others)
    IN  IF p_evidence.raised THEN Raise
        ELSE IF p_anti_evidence.raised THEN Raise
        ELSE Ret([score |-> p_anti_evidence.val.den * p_evidence.val - p_anti_evidence.val.num,
                  model |-> hmm_model])

\* lines 174-176
DICStart ==
    /\ pc = "start" /\ strategy = "DIC"
    /\ LET r == base_model(n_constant, fitOK[n_constant]) IN
        IF r.raised
        THEN /\ result' = select_except.val
             /\ escaped' = select_except.raised
             /\ pc' = "done"
             /\ UNCHANGED selvars
        ELSE /\ best_num_states' = 1
             /\ best_score' = NegInf
             /\ best_model' = r.val
             /\ n' = min_n_components
             /\ pc' = "loop"
             /\ UNCHANGED <<result, escaped, hist, folded>>
    /\ UNCHANGED <<cfgvars, recvars>>

DICIter ==
    /\ pc = "loop" /\ strategy = "DIC" /\ n < max_n_components
    /\ \E ev \in ScoreOutcome, others \in [1..nother -> ScoreOutcome] :
        LET r == dic_model(n, fitOK[n], ev, others) IN
        IF ~r.raised
        THEN /\ hist' = [hist EXCEPT ![n] = [st |-> "ok", fit |-> TRUE, score |-> r.val.score]]
             /\ IF r.val.score > best_score
                THEN /\ best_score' = r.val.score
                     /\ best_model' = r.val.model
                     /\ best_num_states' = n
                ELSE UNCHANGED <<best_score, best_num_states, best_model>>
             /\ n' = n + 1
             /\ UNCHANGED <<pc, result, escaped>>
        ELSE /\ hist' = [hist EXCEPT ![n] = [st |-> "fail", fit |-> fitOK[n], score |-> 0]]
             /\ UNCHANGED <<best_score, best_num_states, best_model>>
             /\ IF loop_except(verbose).raised
                THEN /\ result' = select_except.val
                     /\ escaped' = select_except.raised
                     /\ pc' = "done"
                     /\ n' = n
                ELSE /\ n' = n + 1
                     /\ UNCHANGED <<pc, result, escaped>>
    /\ UNCHANGED <<cfgvars, folded, recvars>>

\* line 194
DICReturn ==
    /\ pc = "loop" /\ strategy = "DIC" /\ n >= max_n_components
    /\ result' = best_model
    /\ pc' = "done"
    /\ UNCHANGED <<cfgvars, selvars, escaped, recvars>>

\* ---------------------------------------------------------------- SelectorCV
\* some fit of the folds was reached and succeeded
FoldFitDone(fo) ==
    \E k \in 1..n_splits :
        /\ fo[k].fit
        /\ \A j \in 1..(k - 1) : fo[j].fit /\ fo[j].sc.st = "ok"

RECURSIVE cv_folds(_, _, _, _)
\* the loop over the folds of KFold(n_splits), from fold k on; fo[k] is what
\* the fit and the score of fold k do
cv_folds(num_states, fo, k, total_score) ==
    IF k > n_splits
    THEN Ret([total_score |-> total_score, folds |-> k - 1,
              training_model |-> Model(num_states, k - 1)])
    ELSE IF ~fo[k].fit THEN Raise
    ELSE LET score == hmm_score(Model(num_states, k), fo[k].sc) IN
         IF score.raised THEN Raise
         ELSE cv_folds(num_states, fo, k + 1, total_score + score.val)

\* cross_validation_model whose branch without folds fits num_states states
cross_validation_model_own_n(num_states, fo) ==
    IF nseq > n_splits
    THEN LET r == cv_folds(num_states, fo, 1, 0) IN
         IF r.raised THEN Raise
         ELSE Ret([score |-> r.val.total_score, model |-> r.val.training_model])
    ELSE LET b == base_model(num_states, fitOK[num_states]) IN
         IF b.raised THEN Raise
         ELSE Ret([score |-> 0, model |-> b.val])

\* the average is kept multiplied by folds, which is n_splits whenever the
\* folds are run; the branch without folds returns 0.
cross_validation_model(num_states, fo) ==
    IF nseq > n_splits
    THEN LET r == cv_folds(num_states, fo, 1, 0) IN
         IF r.raised THEN Raise
         ELSE Ret([score |-> r.val.total_score, model |-> r.val.training_model])
    ELSE LET b == base_model(n_constant, fitOK[n_constant]) IN
         IF b.raised THEN Raise
         ELSE Ret([score |-> 0, model |-> b.val])

\* the handler of the try of SelectorCV.select: print(e); return None
cv_except == Ret(None)

\* line 246 with > for >=
cv_better_strict(score, best) == score > best

\* the comparison of line 246
cv_better(score, best) == score >= best

\* lines 239-241
CVStart ==
    /\ pc = "start" /\ strategy = "CV"
    /\ best_num_states' = 0
    /\ best_score' = NegInf
    /\ best_model' = None
    /\ n' = min_n_components
    /\ pc' = "loop"
    /\ UNCHANGED <<cfgvars, result, escaped, hist, folded, recvars>>

\* one pass of the loop; line 249 assigns best_num_state, another name, so
\* best_num_states keeps its value
CVIter ==
    /\ pc = "loop" /\ strategy = "CV" /\ n < max_n_components
    /\ \E fo \in [1..n_splits -> FoldOutcome] :
        LET r == cross_validation_model(n, fo) IN
        /\ folded' = (folded \/ nseq > n_splits)
        /\ IF ~r.raised
           THEN /\ hist' = [hist EXCEPT ![n] =
                               [st |-> "ok", fit |-> (r.val.model # None), score |-> r.val.score]]
                /\ IF cv_better(r.val.score, best_score)
                   THEN /\ best_score' = r.val.score
                        /\ best_model' = r.val.model
                   ELSE UNCHANGED <<best_score, best_model>>
                /\ n' = n + 1
                /\ UNCHANGED <<pc, result, escaped, best_num_states>>
           ELSE /\ hist' = [hist EXCEPT ![n] =
                               [st |-> "fail",
                                fit |-> IF nseq > n_splits THEN FoldFitDone(fo) ELSE FALSE,
                                score |-> 0]]
                /\ result' = cv_except.val
                /\ escaped' = cv_except.raised
                /\ pc' = "done"
                /\ UNCHANGED <<n, best_score, best_model, best_num_states>>
    /\ UNCHANGED <<cfgvars, recvars>>

\* line 251
CVReturn ==
    /\ pc = "loop" /\ strategy = "CV" /\ n >= max_n_components
    /\ result' = best_model
    /\ pc' = "done"
    /\ UNCHANGED <<cfgvars, selvars, escaped, recvars>>

\* ------------------------------------------------------------ specification
Strategies == {"Constant", "BIC", "DIC", "CV"}

Init ==
    /\ strategy \in Strategies
    /\ verbose \in BOOLEAN
    /\ n_constant \in {DefaultMin, DefaultNConstant}
    /\ max_n_components \in DefaultMin..MaxStates
    /\ min_n_components \in {m \in {DefaultMin, DefaultNConstant} : m <= max_n_components}
    /\ nseq \in IF strategy = "CV" THEN n_splits..MaxSeq ELSE {MaxSeq}
    /\ nother \in IF strategy = "DIC" THEN 0..MaxOther ELSE {1}
    /\ nframes \in IF strategy = "BIC" THEN Frames ELSE {1}
    /\ nfeat \in IF strategy = "BIC" THEN Features ELSE {1}
    /\ fitOK \in [StateCounts \cup {DefaultNConstant} -> BOOLEAN]
    /\ pc = "start"
    /\ n = min_n_components
    /\ best_score = NegInf
    /\ best_model = None
    /\ best_num_states = 0
    /\ result = None
    /\ escaped = FALSE
    /\ hist = [s \in StateCounts |-> NoHist]
    /\ folded = FALSE
    /\ models = <<>>
    /\ tests = <<>>
    /\ idx = 1
    /\ probabilities = <<>>
    /\ guesses = <<>>

Next ==
    \/ ConstantSelect
    \/ BICStart
    \/ BICIter
    \/ BICReturn
    \/ DICStart
    \/ DICIter
    \/ DICReturn
    \/ CVStart
    \/ CVIter
    \/ CVReturn

Spec == Init /\ [][Next]_vars

\* ------------------------------------------------------------------ recognize
\* the dict that maps nothing
EmptyMap == [w \in {} |-> 0]

\* words_prob[word] = score
SetItem(d, word, score) ==
    [w \in (DOMAIN d) \cup {word} |-> IF w = word THEN score ELSE d[w]]

\* the comparison of line 38
rec_better(score, best) == score > best

\* the loop body that records a failed or missing score as -inf
word_step_unguarded(mods, test, j, acc) ==
    LET word == mods[j].word
        model == mods[j].model
        score == hmm_score(model, test[j])
    IN  IF score.raised
        THEN [acc EXCEPT !.words_prob = SetItem(acc.words_prob, word, NegInf)]
        ELSE [words_prob |-> SetItem(acc.words_prob, word, score.val),
              guess_word |-> IF rec_better(score.val, acc.best_score)
                             THEN word ELSE acc.guess_word,
              best_score |-> IF rec_better(score.val, acc.best_score)
                             THEN score.val ELSE acc.best_score]

\* the loop body that never updates best_score
word_step_no_best(mods, test, j, acc) ==
    LET word == mods[j].word
        model == mods[j].model
    IN  IF model # None
        THEN LET score == hmm_score(model, test[j]) IN
             IF score.raised THEN acc
             ELSE [words_prob |-> SetItem(acc.words_prob, word, score.val),
                   guess_word |-> IF rec_better(score.val, acc.best_score)
                                  THEN word ELSE acc.guess_word,
                   best_score |-> acc.best_score]
        ELSE acc

\* the body of the loop over models.items() for the j-th item; test[j] is
\* what models[j].score does on this test sequence
word_step(mods, test, j, acc) ==
    LET word == mods[j].word
        model == mods[j].model
    IN  IF model # None
        THEN LET score == hmm_score(model, test[j]) IN
             IF score.raised THEN acc
             ELSE [words_prob |-> SetItem(acc.words_prob, word, score.val),
                   guess_word |-> IF rec_better(score.val, acc.best_score)
                                  THEN word ELSE acc.guess_word,
                   best_score |-> IF rec_better(score.val, acc.best_score)
                                  THEN score.val ELSE acc.best_score]
        ELSE acc

RECURSIVE words_loop(_, _, _, _)
words_loop(mods, test, j, acc) ==
    IF j > Len(mods) THEN acc
    ELSE words_loop(mods, test, j + 1, word_step(mods, test, j, acc))

\* lines 27-44: the scores and the guess for one test sequence
recognize_sequence(mods, test) ==
    words_loop(mods, test, 1,
               [words_prob |-> EmptyMap, guess_word |-> NoGuess, best_score |-> NegInf])

\* the pass that appends a guess only when there is one
RecognizeIterGuessed ==
    /\ pc = "rloop" /\ idx <= Len(tests)
    /\ LET r == recognize_sequence(models, tests[idx]) IN
        /\ probabilities' = Append(probabilities, r.words_prob)
        /\ guesses' = IF r.guess_word = NoGuess THEN guesses
                      ELSE Append(guesses, r.guess_word)
    /\ idx' = idx + 1
    /\ UNCHANGED <<cfgvars, pc, selvars, result, escaped, models, tests>>

\* one pass of the loop over test_sequences
RecognizeIter ==
    /\ pc = "rloop" /\ idx <= Len(tests)
    /\ LET r == recognize_sequence(models, tests[idx]) IN
        /\ probabilities' = Append(probabilities, r.words_prob)
        /\ guesses' = Append(guesses, r.guess_word)
    /\ idx' = idx + 1
    /\ UNCHANGED <<cfgvars, pc, selvars, result, escaped, models, tests>>

\* line 49
RecognizeReturn ==
    /\ pc = "rloop" /\ idx > Len(tests)
    /\ pc' = "done"
    /\ UNCHANGED <<cfgvars, selvars, result, escaped, recvars>>

\* the model maps: words in the order of the dict, each with a model or None
ModelMaps ==
    {m \in UNION {[1..k -> [word : Words, model : {None, Model(DefaultNConstant, 0)}]] :
                    k \in 0..Cardinality(Words)} :
        \A i, j \in DOMAIN m : i # j => m[i].word # m[j].word}

\* what the models of a map can do on one test sequence; score is not
\* called on None
TestOutcomes(mods) ==
    {t \in [DOMAIN mods -> ScoreOutcome \cup {NotCalled}] :
        \A j \in DOMAIN mods : (t[j] = NotCalled) <=> (mods[j].model = None)}

RecInit ==
    /\ strategy = "recognize"
    /\ verbose = FALSE
    /\ n_constant = DefaultNConstant
    /\ min_n_components = DefaultMin
    /\ max_n_components = DefaultMin
    /\ nseq = MaxSeq
    /\ nother = 1
    /\ nframes = 1
    /\ nfeat = 1
    /\ fitOK = [s \in StateCounts \cup {DefaultNConstant} |-> TRUE]
    /\ pc = "rloop"
    /\ n = DefaultMin
    /\ best_score = NegInf
    /\ best_model = None
    /\ best_num_states = 0
    /\ result = None
    /\ escaped = FALSE
    /\ hist = [s \in StateCounts |-> NoHist]
    /\ folded = FALSE
    /\ models \in ModelMaps
    /\ tests \in UNION {[1..k -> TestOutcomes(models)] : k \in 0..MaxTest}
    /\ idx = 1
    /\ probabilities = <<>>
    /\ guesses = <<>>

RecNext ==
    \/ RecognizeIter
    \/ RecognizeReturn

RecSpec == RecInit /\ [][RecNext]_vars

\* ===================================================================== claims
InRange == min_n_components..(max_n_components - 1)

\* the n whose candidate was fit and scored
Scored == {s \in InRange : hist[s].st = "ok"}

\* some fit performed by select() succeeded
FitSucceeded ==
    \/ strategy \in {"Constant", "BIC", "DIC"} /\ pc # "start" /\ fitOK[n_constant]
    \/ \E s \in StateCounts : hist[s].fit

\* C1: in SelectorBIC.select and SelectorDIC.select a failure of the candidate
\* for n skips that n only: the loop goes on with n + 1 and the best candidate
\* recorded so far is kept; the selection is not ended by the failure.
C1_FailureSkipsOnlyThatN ==
    [][(pc = "loop" /\ strategy \in {"BIC", "DIC"} /\ n < max_n_components
            /\ hist'[n].st = "fail")
        => (pc' = "loop" /\ n' = n + 1
            /\ best_model' = best_model /\ best_score' = best_score)]_vars

\* C2: when some candidate fit performed during select() succeeded, select()
\* does not return None.
C2_FitSuccessGivesModel ==
    (pc = "done" /\ strategy \in Strategies /\ FitSucceeded) => result # None

\* C3: in SelectorCV.select with more than 3 sequences a failure in a fold of
\* the candidate for n skips that n only: the loop goes on with n + 1 and the
\* best candidate recorded so far is kept.
C3_CVFailureSkipsOnlyThatN ==
    [][(pc = "loop" /\ strategy = "CV" /\ nseq > n_splits /\ n < max_n_components
            /\ hist'[n].st = "fail")
        => (pc' = "loop" /\ n' = n + 1 /\ best_model' = best_model)]_vars

\* C4: for every strategy, verbose setting and pattern of failures select()
\* ends and returns a fitted model or None; no exception leaves select().
C4_SelectNeverRaises ==
    /\ ~escaped
    /\ pc = "done" \/ ENABLED Next
    /\ pc = "done" => (result = None \/ result.kind = "hmm")

C4_Witness ==
    /\ pc = "done" /\ strategy = "DIC" /\ verbose /\ nother = 0
    /\ fitOK[DefaultMin] /\ hist[DefaultMin].st = "fail"
    /\ result = None /\ ~escaped

\* C5: when some n of the range was fit and scored, SelectorDIC.select
\* returns the candidate of one of those n, whose DIC score is at least the
\* DIC score of every other candidate that was fit and scored.
C5_DICReturnsMaximal ==
    (pc = "done" /\ strategy = "DIC" /\ Scored # {})
        => \E m \in Scored :
            /\ result = Model(m, 0)
            /\ \A k \in Scored : hist[m].score >= hist[k].score

\* what base_model(n_constant) gives: the model fit on the full data, or None
ConstantCandidate == IF fitOK[n_constant] THEN Model(n_constant, 0) ELSE None

\* C6 as stated: with 3 or fewer sequences SelectorCV.select runs no fold,
\* gives every n the score 0 and returns the result of base_model(n_constant).
C6_Original ==
    (pc = "done" /\ strategy = "CV" /\ nseq <= n_splits)
        => /\ ~folded
           /\ \A s \in InRange : hist[s].st = "ok" /\ hist[s].score = 0
           /\ result = ConstantCandidate

\* C6 amended: with 3 or fewer sequences SelectorCV.select runs no fold, gives
\* every n the score 0, and returns the result of base_model(n_constant) when
\* the range of n is not empty, and None when it is empty.
C6_Amended ==
    (pc = "done" /\ strategy = "CV" /\ nseq <= n_splits)
        => /\ ~folded
           /\ \A s \in InRange : hist[s].st = "ok" /\ hist[s].score = 0
           /\ result = IF InRange # {} THEN ConstantCandidate ELSE None

C6_Witness ==
    /\ pc = "done" /\ strategy = "CV" /\ nseq <= n_splits
    /\ Cardinality(InRange) >= 2 /\ n_constant \notin {max_n_components - 1}
    /\ result = Model(n_constant, 0)

\* C10: with more than 3 sequences and no failure, SelectorCV.select returns
\* the model fit on the last fold's training split for the largest n whose
\* average score is the maximum over the range.
C10_CVLatestMaximum ==
    (pc = "done" /\ strategy = "CV" /\ nseq > n_splits
            /\ \A s \in InRange : hist[s].st = "ok")
        => \A m \in InRange :
            (/\ \A k \in InRange : hist[k].score <= hist[m].score
             /\ \A k \in InRange : k > m => hist[k].score < hist[m].score)
                => result = Model(m, n_splits)

C10_Witness ==
    /\ pc = "done" /\ strategy = "CV" /\ nseq > n_splits
    /\ \E m \in InRange :
        /\ m > min_n_components
        /\ \A s \in InRange : hist[s].st = "ok" /\ hist[s].score = hist[m].score
        /\ hist[m].score > 0
        /\ m = max_n_components - 1
        /\ result = Model(m, n_splits)

\* ----------------------------------------------------------- recognize claims
\* the words whose model is not None and whose score call on test i succeeded
ScoredWords(i) ==
    {models[j].word : j \in {j \in DOMAIN models :
                                models[j].model # None /\ tests[i][j].st = "ok"}}

\* the score the model of word w gives on test i
ScoreOf(i, w) == tests[i][CHOOSE j \in DOMAIN models : models[j].word = w].v

\* C7: both returned lists have one entry per test sequence, and entry i is
\* the result for the i-th test sequence: its scores, and a guess among its
\* scored words (None when it has none).
C7_OneEntryPerSequence ==
    pc = "done" =>
        /\ Len(probabilities) = Len(tests)
        /\ Len(guesses) = Len(tests)
        /\ \A i \in DOMAIN tests :
            /\ DOMAIN probabilities[i] = ScoredWords(i)
            /\ \A w \in ScoredWords(i) : probabilities[i][w] = ScoreOf(i, w)
            /\ guesses[i] = NoGuess <=> ScoredWords(i) = {}
            /\ guesses[i] # NoGuess => guesses[i] \in ScoredWords(i)

C7_Witness ==
    /\ pc = "done" /\ Len(tests) = 2 /\ Len(guesses) = 2 /\ Len(probabilities) = 2
    /\ guesses[1] = NoGuess /\ guesses[2] # NoGuess
    /\ probabilities[1] = EmptyMap /\ probabilities[2] # EmptyMap
    /\ Len(models) = 2

\* C8: a word whose score on test i is strictly above the score of every
\* other word scored on it is the guess; and a guess that is not None is a
\* key of probabilities[i] whose score is at least every recorded score.
C8_GuessIsMaximal ==
    \A i \in DOMAIN guesses :
        /\ \A w \in ScoredWords(i) :
            (\A u \in ScoredWords(i) \ {w} : ScoreOf(i, w) > ScoreOf(i, u))
                => guesses[i] = w
        /\ guesses[i] # NoGuess =>
            /\ guesses[i] \in DOMAIN probabilities[i]
            /\ \A u \in DOMAIN probabilities[i] :
                probabilities[i][guesses[i]] >= probabilities[i][u]

C8_Witness ==
    /\ pc = "done" /\ Len(models) = 2
    /\ \E i \in DOMAIN guesses :
        /\ ScoredWords(i) = Words
        /\ ScoreOf(i, models[1].word) > ScoreOf(i, models[2].word)
        /\ guesses[i] = models[1].word

\* C9: the keys of probabilities[i] are exactly the words whose model is not
\* None and whose score call on test i succeeded; an empty model map gives an
\* empty score map and the guess None for each test sequence.
C9_KeysAreScoredWords ==
    /\ \A i \in DOMAIN probabilities : DOMAIN probabilities[i] = ScoredWords(i)
    /\ (pc = "done" /\ models = <<>>) =>
        /\ Len(probabilities) = Len(tests) /\ Len(guesses) = Len(tests)
        /\ \A i \in DOMAIN tests :
            probabilities[i] = EmptyMap /\ guesses[i] = NoGuess

C9_Witness ==
    /\ pc = "done" /\ Len(models) = 2 /\ Len(tests) = 2
    /\ models[1].model # None /\ models[2].model # None
    /\ tests[1][1].st = "fail" /\ tests[1][2].st = "ok"
    /\ tests[2][1].st = "ok"
    /\ DOMAIN probabilities[1] = {models[2].word}
    /\ models[1].word \in DOMAIN probabilities[2]

====
